---- MODULE Spec2Model ----
(***************************************************************************)
(* Model of client_questionnaire_tool.py: the Questionnaire object, the    *)
(* widgets of QuestionnaireFrame that submit() reads, the Tk main loop of  *)
(* get_client_response and ClientQuestionnaireTool._run.                   *)
(*                                                                         *)
(* A Python str is modelled as a sequence of pieces (TLA+ strings) whose   *)
(* concatenation is the str; a line break is always the piece "\n" of its  *)
(* own.  A dict is a function whose DOMAIN is the set of its keys.         *)
(***************************************************************************)
EXTENDS Integers, Sequences, FiniteSets, TLC

\* Number of get_client_response invocations explored.
MaxCalls == 2

\* Number of invocations of the completion callback explored in one session.
MaxSinkCalls == 2

----------------------------------------------------------------------------
\* Values

\* Python's None and a str value, as one record shape.
None == [isNone |-> TRUE, str |-> <<>>]

Str(s) == [isNone |-> FALSE, str |-> s]

\* dict.get(key, default)
Get(d, key, default) == IF key \in DOMAIN d THEN d[key] ELSE default

\* What the human can have typed into a tk.Text widget.
TextValues == {<<>>, <<" ">>, <<"x">>, <<" ", "x", " ">>}

\* Questionnaires handed to Questionnaire(...) directly: the dicts of
\* `questions`.  A dict may lack "options" (QuestionFrame defaults it) and
\* may lack "question".
DirectQuestions ==
    { << [question |-> "Q1", options |-> <<"a", "b">>] >>,
      << [question |-> "Q1"], [question |-> "Q2", options |-> <<"b">>] >>,
      << [options |-> <<"a">>] >> }

\* An element of kwargs["questions"]: a QuestionSchema instance, or a plain
\* dict that was never parsed.
QS(q, opts) == [type |-> "QuestionSchema", data |-> [question |-> q, options |-> opts]]

RawDict(d) == [type |-> "dict", data |-> d]

\* The keyword arguments given to _run.
RunInputs ==
    { [title |-> "T", questions |-> <<>>],
      [questions |-> << QS("Q1", <<"a", "b">>) >>],
      [title |-> "T"],
      [title |-> "T", questions |-> << RawDict([options |-> <<"a">>]) >>] }

\* QuestionnaireSchema / QuestionSchema: questions is required, every element
\* is question-shaped (has a question).
SchemaValid(kw) ==
    /\ "questions" \in DOMAIN kw
    /\ \A i \in 1..Len(kw.questions) : "question" \in DOMAIN kw.questions[i].data

----------------------------------------------------------------------------
VARIABLES
    owner,                  \* who holds the Questionnaire object: none, direct, run
    title,                  \* Questionnaire.title
    questions,              \* Questionnaire.questions
    client_response,        \* Questionnaire.client_response
    window,                 \* Questionnaire.window: unset, open, destroyed
    question_frames,        \* QuestionnaireFrame.question_frames
    comment,                \* CommentFrame.comment content
    client_response_lines,  \* submit's list of lines
    pc,                     \* get_client_response: idle, mainloop, returned, raised
    result,                 \* value returned by get_client_response
    runpc,                  \* _run: idle, running, returned, raised
    kwargs,                 \* _run's keyword arguments
    run_result,             \* value returned by _run
    run_windows,            \* windows created by the current _run invocation
    submits,                \* on_client_response invocations in this session
    closes,                 \* window-manager closes in this session
    destroy_calls,          \* self.window.destroy() calls in this session
    returns,                \* returns of get_client_response in this session
    calls                   \* get_client_response invocations so far

objvars == <<owner, title, questions, client_response, window>>

widgetvars == <<question_frames, comment>>

callvars == <<pc, result, client_response_lines>>

runvars == <<runpc, kwargs, run_result, run_windows>>

histvars == <<submits, closes, destroy_calls, returns, calls>>

vars == <<objvars, widgetvars, callvars, runvars, histvars>>

----------------------------------------------------------------------------
\* Widgets

OptionFrame(option) == [option |-> option, selected |-> FALSE]

QuestionFrame(question_data) ==
    LET options == Get(question_data, "options", <<>>)
    IN  [question_label |-> question_data["question"],
         option_frames  |-> [j \in 1..Len(options) |-> OptionFrame(options[j])],
         custom_option  |-> <<>>]

----------------------------------------------------------------------------
\* QuestionnaireFrame.submit

TitleLine(t) == <<"Client answers to the questionnaire \"", t, "\":">>

RECURSIVE OptionLines_reversed(_)
OptionLines_reversed(option_frames) ==
    IF option_frames = <<>> THEN <<>>
    ELSE OptionLines_reversed(Tail(option_frames))
         \o (IF Head(option_frames).selected
             THEN << <<"  * ", Head(option_frames).option>> >>
             ELSE <<>>)

RECURSIVE OptionLines(_)
OptionLines(option_frames) ==
    IF option_frames = <<>> THEN <<>>
    ELSE (IF Head(option_frames).selected
          THEN << <<"  * ", Head(option_frames).option>> >>
          ELSE <<>>)
         \o OptionLines(Tail(option_frames))

CustomLine(custom_option) ==
    IF custom_option # <<>> THEN << <<"  + ">> \o custom_option >> ELSE <<>>

QuestionLines_skipEmpty(question_frame) ==
    IF question_frame.option_frames = <<>> THEN <<>>
    ELSE << <<"\n", question_frame.question_label>> >>
         \o OptionLines(question_frame.option_frames)
         \o CustomLine(question_frame.custom_option)

QuestionLines(question_frame) ==
    << <<"\n", question_frame.question_label>> >>
    \o OptionLines(question_frame.option_frames)
    \o CustomLine(question_frame.custom_option)

RECURSIVE AllQuestionLines(_)
AllQuestionLines(frames) ==
    IF frames = <<>> THEN <<>>
    ELSE QuestionLines(Head(frames)) \o AllQuestionLines(Tail(frames))

CommentLines(c) ==
    IF c # <<>> THEN << <<"\n", "Client comments:", "\n">> \o c >> ELSE <<>>

ResponseLines ==
    << TitleLine(title) >> \o AllQuestionLines(question_frames) \o CommentLines(comment)

\* "\n".join(lines)
RECURSIVE Join(_)
Join(lines) ==
    IF lines = <<>> THEN <<>>
    ELSE IF Len(lines) = 1 THEN lines[1]
    ELSE lines[1] \o <<"\n">> \o Join(Tail(lines))

----------------------------------------------------------------------------
\* Questionnaire

NewQuestionnaire_keeps(t, qs) ==
    /\ title' = t
    /\ questions' = qs
    /\ client_response' = client_response

NewQuestionnaire(t, qs) ==
    /\ title' = t
    /\ questions' = qs
    /\ client_response' = None

on_client_response_nodestroy(response) ==
    /\ client_response' = Str(response)
    /\ window' = window
    /\ destroy_calls' = destroy_calls

on_client_response(response) ==
    /\ client_response' = Str(response)
    /\ window' = "destroyed"
    /\ destroy_calls' = destroy_calls + 1

\* No _run invocation is in progress or was the caller's last operation.
NoRun ==
    /\ runpc' = "idle"
    /\ kwargs' = [questions |-> <<>>]
    /\ run_result' = None
    /\ run_windows' = 0

\* get_client_response up to mainloop(): the window is created, then the
\* QuestionnaireFrame is built from the questions qs; QuestionFrame raises
\* KeyError on a dict without "question", after the window exists.
Enter(qs) ==
    /\ window' = "open"
    /\ calls' = calls + 1
    /\ submits' = 0
    /\ closes' = 0
    /\ destroy_calls' = 0
    /\ returns' = 0
    /\ client_response_lines' = <<>>
    /\ result' = None
    /\ comment' = <<>>
    /\ IF \A i \in 1..Len(qs) : "question" \in DOMAIN qs[i]
       THEN /\ question_frames' = [i \in 1..Len(qs) |-> QuestionFrame(qs[i])]
            /\ pc' = "mainloop"
       ELSE /\ question_frames' = <<>>
            /\ pc' = "raised"

\* Questionnaire(title, author, introduction, questions) by a caller.
Construct(t, qs) ==
    /\ pc # "mainloop"
    /\ owner' = "direct"
    /\ NewQuestionnaire(t, qs)
    /\ window' = "unset"
    /\ pc' = "idle"
    /\ question_frames' = <<>>
    /\ comment' = <<>>
    /\ client_response_lines' = <<>>
    /\ result' = None
    /\ submits' = 0
    /\ closes' = 0
    /\ destroy_calls' = 0
    /\ returns' = 0
    /\ NoRun
    /\ UNCHANGED calls

\* q.get_client_response() by a caller, on the object it constructed.
GetClientResponse ==
    /\ owner = "direct"
    /\ pc # "mainloop"
    /\ calls < MaxCalls
    /\ Enter(questions)
    /\ NoRun
    /\ UNCHANGED <<owner, title, questions, client_response>>

----------------------------------------------------------------------------
\* The main loop: the human's events

Interactive == pc = "mainloop" /\ window = "open"

\* A click on option j of question i.
Toggle(i, j) ==
    /\ Interactive
    /\ question_frames' =
         [question_frames EXCEPT ![i].option_frames[j].selected = ~@]
    /\ UNCHANGED <<objvars, comment, callvars, runvars, histvars>>

\* The human edits the custom text of question i to s.
TypeCustom(i, s) ==
    /\ Interactive
    /\ question_frames[i].custom_option # s
    /\ question_frames' = [question_frames EXCEPT ![i].custom_option = s]
    /\ UNCHANGED <<objvars, comment, callvars, runvars, histvars>>

\* The human edits the closing comment to s.
TypeComment(s) ==
    /\ Interactive
    /\ comment # s
    /\ comment' = s
    /\ UNCHANGED <<objvars, question_frames, callvars, runvars, histvars>>

\* The Submit button: QuestionnaireFrame.submit.
Submit ==
    /\ Interactive
    /\ client_response_lines' = ResponseLines
    /\ on_client_response(Join(ResponseLines))
    /\ submits' = submits + 1
    /\ UNCHANGED <<owner, title, questions, widgetvars, pc, result, runvars,
                   closes, returns, calls>>

\* The human closes the window: Tk's default handler destroys it.
CloseWindow ==
    /\ Interactive
    /\ window' = "destroyed"
    /\ closes' = closes + 1
    /\ UNCHANGED <<owner, title, questions, client_response, widgetvars, callvars,
                   runvars, submits, destroy_calls, returns, calls>>

Return_submittedOnly ==
    /\ pc = "mainloop"
    /\ window = "destroyed"
    /\ submits >= 1
    /\ pc' = "returned"
    /\ result' = client_response
    /\ returns' = returns + 1
    /\ IF owner = "run"
       THEN /\ runpc' = "returned"
            /\ run_result' = client_response
       ELSE UNCHANGED <<runpc, run_result>>
    /\ UNCHANGED <<objvars, widgetvars, client_response_lines, kwargs, run_windows,
                   submits, closes, destroy_calls, calls>>

\* mainloop() ends once the window is destroyed; get_client_response returns
\* self.client_response, and _run, when it is the caller, returns that value.
Return ==
    /\ pc = "mainloop"
    /\ window = "destroyed"
    /\ pc' = "returned"
    /\ result' = client_response
    /\ returns' = returns + 1
    /\ IF owner = "run"
       THEN /\ runpc' = "returned"
            /\ run_result' = client_response
       ELSE UNCHANGED <<runpc, run_result>>
    /\ UNCHANGED <<objvars, widgetvars, client_response_lines, kwargs, run_windows,
                   submits, closes, destroy_calls, calls>>

----------------------------------------------------------------------------
\* ClientQuestionnaireTool._run

\* question.dict()
HasDictMethod(item) == item.type = "QuestionSchema"

ToDict(item) == item.data

\* _run(**kw): question.dict() raises AttributeError on an element that is not
\* a model instance, before the Questionnaire is made; otherwise the
\* Questionnaire is made and get_client_response entered.
Run(kw) ==
    /\ pc # "mainloop"
    /\ calls < MaxCalls
    /\ kwargs' = kw
    /\ run_result' = None
    /\ LET items == Get(kw, "questions", <<>>)
       IN  IF \E i \in 1..Len(items) : ~HasDictMethod(items[i])
           THEN /\ runpc' = "raised"
                /\ run_windows' = 0
                /\ UNCHANGED <<objvars, widgetvars, callvars, histvars>>
           ELSE /\ runpc' = "running"
                /\ run_windows' = 1
                /\ owner' = "run"
                /\ NewQuestionnaire(Get(kw, "title", "No title"),
                                    [i \in 1..Len(items) |-> ToDict(items[i])])
                /\ Enter(questions')

----------------------------------------------------------------------------
Init ==
    /\ owner = "none"
    /\ title = ""
    /\ questions = <<>>
    /\ client_response = None
    /\ window = "unset"
    /\ question_frames = <<>>
    /\ comment = <<>>
    /\ client_response_lines = <<>>
    /\ pc = "idle"
    /\ result = None
    /\ runpc = "idle"
    /\ kwargs = [questions |-> <<>>]
    /\ run_result = None
    /\ run_windows = 0
    /\ submits = 0
    /\ closes = 0
    /\ destroy_calls = 0
    /\ returns = 0
    /\ calls = 0

Next ==
    \/ \E kw \in RunInputs : Run(kw)
    \/ \E qs \in DirectQuestions : Construct("T", qs)
    \/ GetClientResponse
    \/ \E i \in 1..Len(question_frames) :
         \E j \in 1..Len(question_frames[i].option_frames) : Toggle(i, j)
    \/ \E i \in 1..Len(question_frames) : \E s \in TextValues : TypeCustom(i, s)
    \/ \E s \in TextValues : TypeComment(s)
    \/ Submit
    \/ CloseWindow
    \/ Return

Spec == Init /\ [][Next]_vars

\* The code after mainloop() runs once mainloop() has ended.
FairSpec == Spec /\ WF_vars(Return)

----------------------------------------------------------------------------
\* The completion callback is a bound method handed to QuestionnaireFrame;
\* whoever holds it can invoke it again after the first invocation.

SinkResponses == { <<"again">> }

SinkAgain(r) ==
    /\ submits >= 1
    /\ submits < MaxSinkCalls
    /\ on_client_response(r)
    /\ submits' = submits + 1
    /\ UNCHANGED <<owner, title, questions, widgetvars, callvars, runvars,
                   closes, returns, calls>>

NextSink ==
    \/ Next
    \/ \E r \in SinkResponses : SinkAgain(r)

SpecSink == Init /\ [][NextSink]_vars

----------------------------------------------------------------------------
\* Reading the list of lines built by submit

IsSpace(c) == c = " " \/ c = "\n"

Trimmed(s) == s = <<>> \/ (~IsSpace(s[1]) /\ ~IsSpace(s[Len(s)]))

IsCommentEntry(e) ==
    Len(e) >= 3 /\ e[1] = "\n" /\ e[2] = "Client comments:" /\ e[3] = "\n"

IsHeaderEntry(e) == e[1] = "\n" /\ ~IsCommentEntry(e)

HeaderPositions ==
    { k \in 1..Len(client_response_lines) : IsHeaderEntry(client_response_lines[k]) }

NthHeader(i) ==
    CHOOSE p \in HeaderPositions :
        Cardinality({ h \in HeaderPositions : h <= p }) = i

\* Last position of the lines of question i: before the next header, or the
\* end of the questions' lines.
SegmentEnd(i) ==
    IF i < Cardinality(HeaderPositions) THEN NthHeader(i + 1) - 1
    ELSE IF IsCommentEntry(client_response_lines[Len(client_response_lines)])
    THEN Len(client_response_lines) - 1
    ELSE Len(client_response_lines)

OptionEntries(i) ==
    SelectSeq(SubSeq(client_response_lines, NthHeader(i) + 1, SegmentEnd(i)),
              LAMBDA e : e[1] = "  * ")

CheckedOptions(question_frame) ==
    LET sel == SelectSeq(question_frame.option_frames, LAMBDA o : o.selected)
    IN  [k \in 1..Len(sel) |-> sel[k].option]

NothingEntered ==
    /\ comment = <<>>
    /\ \A i \in 1..Len(question_frames) :
         /\ question_frames[i].custom_option = <<>>
         /\ \A j \in 1..Len(question_frames[i].option_frames) :
              ~question_frames[i].option_frames[j].selected

RECURSIVE HeadersOnly(_)
HeadersOnly(frames) ==
    IF frames = <<>> THEN <<>>
    ELSE <<"\n", "\n", Head(frames).question_label>> \o HeadersOnly(Tail(frames))

----------------------------------------------------------------------------
\* Claims

\* C1: in every session at most one of Submit and window close takes effect,
\* get_client_response returns at most once and only after one of them, and
\* once one of them has happened get_client_response does return.
C1_ExactlyOneResolution ==
    /\ [](/\ submits + closes <= 1
          /\ returns <= 1
          /\ (returns = 1 => submits + closes = 1)
          /\ (pc = "returned" <=> returns = 1))
    /\ ((submits + closes = 1) ~> (returns = 1 /\ submits + closes = 1))

C1_Witness == calls = 2 /\ returns = 1 /\ submits = 1

\* C2: an invocation of on_client_response after a first one in the same
\* session changes neither client_response nor the window and does not call
\* destroy again.
C2_SecondSinkIgnored ==
    [][(submits >= 1 /\ submits' = submits + 1)
         => /\ client_response' = client_response
            /\ window' = window
            /\ destroy_calls' = destroy_calls]_vars

\* C3: once the human has closed the window without Submit, the call
\* returns with the session abandoned (closed, never submitted).
C3_CloseResolves ==
    (closes = 1) ~> (pc = "returned" /\ closes = 1 /\ submits = 0)

C3_Witness == pc = "returned" /\ closes = 1 /\ submits = 0

\* C4: what _run returns for an abandoned session is None, and what it
\* returns for a submitted session is never None.
C4_AbandonedDistinct ==
    (owner = "run" /\ runpc = "returned")
        => /\ (closes = 1 => run_result.isNone)
           /\ (submits = 1 => ~run_result.isNone)

C4_Witness ==
    owner = "run" /\ runpc = "returned" /\ closes = 1 /\ calls = 2 /\ run_result.isNone

\* C5: get_client_response has never returned or raised while its window
\* still exists.
C5_WindowTornDown ==
    pc \in {"returned", "raised"} => window # "open"

\* C6: after submit, the lines hold one header per question, in order, and
\* the "  * " lines under the header of question i are the options checked at
\* submission, in declared order.
C6_CheckedInDeclaredOrder ==
    submits = 1 =>
        /\ Cardinality(HeaderPositions) = Len(question_frames)
        /\ \A i \in 1..Len(question_frames) :
             /\ client_response_lines[NthHeader(i)]
                  = <<"\n", question_frames[i].question_label>>
             /\ \A k \in 1..Len(OptionEntries(i)) : Len(OptionEntries(i)[k]) = 2
             /\ [k \in 1..Len(OptionEntries(i)) |-> OptionEntries(i)[k][2]]
                  = CheckedOptions(question_frames[i])

C6_Witness ==
    /\ submits = 1
    /\ \E i \in 1..Len(question_frames) :
         /\ Len(question_frames[i].option_frames) = 2
         /\ question_frames[i].option_frames[1].selected
         /\ question_frames[i].option_frames[2].selected
         /\ question_frames[i].custom_option # <<>>

\* C7: every custom text and comment in the lines is trimmed and non-empty.
C7_TextTrimmed ==
    submits = 1 =>
        \A k \in 1..Len(client_response_lines) :
            LET e == client_response_lines[k]
            IN  /\ e[1] = "  + " => (Len(e) > 1 /\ Trimmed(Tail(e))
                                     /\ \E n \in 2..Len(e) : ~IsSpace(e[n]))
                /\ IsCommentEntry(e) =>
                     (Len(e) > 3 /\ Trimmed(SubSeq(e, 4, Len(e)))
                      /\ \E n \in 4..Len(e) : ~IsSpace(e[n]))

\* C8: with nothing checked and nothing typed, the transcript is the title
\* line followed by a blank line and the question text for each question.
C8_HeadersOnly ==
    (submits = 1 /\ NothingEntered) =>
        client_response
          = Str(<<"Client answers to the questionnaire \"", title, "\":">>
                \o HeadersOnly(question_frames))

C8_Witness ==
    /\ submits = 1
    /\ NothingEntered
    /\ \E i \in 1..Len(question_frames) : question_frames[i].option_frames = <<>>

\* C9: a _run invocation with schema-invalid input has failed and created no
\* window.
C9_InvalidFailsFast ==
    (runpc # "idle" /\ ~SchemaValid(kwargs))
        => (runpc = "raised" /\ run_windows = 0)

\* C10: a get_client_response call whose window was closed without Submit
\* returns None.
C10_OwnOutcomeOnly ==
    (pc = "returned" /\ closes = 1 /\ submits = 0) => result.isNone

====
